---- MODULE Spec2Model ----
(***************************************************************************)
(* Over-the-air firmware update pipeline of the LED panel firmware.        *)
(*                                                                         *)
(* The repository holds two POST /update handlers: add_update_handler      *)
(* (src/src/http_server.rs) and the closure registered by http_server_init *)
(* (src/src/main.rs).  A device registers one of them; `handler` records    *)
(* which.  The handler is modelled statement by statement: `pc` is the     *)
(* position of the handler, every call into a collaborator (request,       *)
(* EspOta, EspOtaUpdate, EspTimerService) is one step whose result is      *)
(* chosen by the environment.                                              *)
(*                                                                         *)
(* The build target is ESP-IDF (esp_idf_svc), where usize is 32 bits wide  *)
(* while Headers::content_len() yields a u64.  A declared length is kept   *)
(* as a pair of 32-bit words (hi, lo) so that `size as usize` is modelled  *)
(* as the truncation it is.                                                *)
(*                                                                         *)
(* A handler that returns Err without having issued a response is answered *)
(* by the HTTP server with status 500 (fn_handler::<anyhow::Error, _>).    *)
(* `response` is the status issued for the request (0: none yet);          *)
(* `failed` is the set of collaborator calls that returned an error while  *)
(* the request was handled ("send": sending the response failed).          *)
(***************************************************************************)
EXTENDS Integers, Sequences, FiniteSets, TLC

\* ------------------------------------------------------------------ bounds
MaxLen == 3          \* small declared lengths 0..MaxLen
MaxChunk == 2        \* short reads deliver 1..MaxChunk bytes
MaxReads == 3        \* non-empty chunks one body stream delivers at most
MaxRequests == 2     \* requests served in one behaviour

\* --------------------------------------------------------------- constants
STATUS_CODE_OK == 200
STATUS_CODE_LENGTH_REQUIRED == 411
STATUS_CODE_REQUEST_ENTITY_TO_LARGE == 413
STATUS_CODE_UNSUPPORTED_MEDIA_TYPE == 415
STATUS_CODE_INTERNAL_SERVER_ERROR == 500
OTA_PARTITION_SIZE == 2031616
OTA_CHNUNK_SIZE == 8192
REBOOT_DELAY_SECS == 5

CONTENT_TYPE_OCTET_STEAM == "application/octet-stream"
CONTENT_TYPE_JSON == "application/json"
NoContentType == "<absent>"

Handlers == {"add_update_handler", "http_server_init"}

ContentTypes == {NoContentType, CONTENT_TYPE_OCTET_STEAM, CONTENT_TYPE_JSON, "text/plain"}

\* Option<u64>: some = FALSE is None; the value is hi * 2^32 + lo.
NoLen == [some |-> FALSE, hi |-> 0, lo |-> 0]

U64(h, l) == [some |-> TRUE, hi |-> h, lo |-> l]

ContentLens ==
    {NoLen}
      \cup {U64(0, l) : l \in 0..MaxLen}
      \cup {U64(0, OTA_PARTITION_SIZE), U64(0, OTA_PARTITION_SIZE + 1)}
      \cup {U64(1, 0), U64(1, 1), U64(1, OTA_PARTITION_SIZE + 1)}

\* The collaborator calls of the handlers that can return an error.
Calls == {"new", "get_running_slot", "get_update_slot", "initiate_update", "read", "write",
          "abort", "complete", "timer_service", "timer", "send", "after"}

\* Sizes one request.read(&mut buffer) can return: 0, a short read, a full buffer.
ReadSizes == (0..MaxChunk) \cup {OTA_CHNUNK_SIZE}

\* ------------------------------------------------------------------- state
VARIABLES
    handler,          \* which POST /update handler the server registered
    pc,               \* position of the handler
    requests,         \* requests received so far
    content_type,     \* request.content_type()
    content_len,      \* request.content_len()
    reads_left,       \* non-empty chunks the body stream still delivers
    firmware_size,    \* let firmware_size
    total_bytes_read, \* let mut total_bytes_read
    bytes_read,       \* let bytes_read (last read)
    firmware_known,   \* running_slot.firmware.is_some()
    txn,              \* the EspOtaUpdate of this request
    begins,           \* ota.initiate_update() calls that succeeded
    writes_ok,        \* ota_updater.write() calls that succeeded
    writes_failed,    \* ota_updater.write() calls that failed
    aborts,           \* ota_updater.abort() calls
    commits,          \* ota_updater.complete() calls
    arms,             \* reboot_timer.after() calls that armed the timer
    armed_delay,      \* delay given to the last arm of this request
    response,         \* status issued for this request, 0 if none
    failed,           \* collaborator calls that failed during this request
    result,           \* what the handler returned: "none", "Ok", "Err"
    timers,           \* armed restart timers: seconds left of each
    rebooted,         \* restart() was called by a timer callback
    mac_address,      \* the station MAC address of the device, 6 bytes
    hostname,         \* base36::encode(mac_address), a sequence of characters
    read_log,         \* the non-empty chunks request.read() put into `buffer`, in order
    write_log,        \* the slices handed to ota_updater.write(), in order
    first_run         \* what the other handler did with the same request, if it was asked

input == <<content_type, content_len>>

stream == <<reads_left, firmware_size, total_bytes_read, bytes_read>>

calls == <<begins, writes_ok, writes_failed, aborts, commits>>

restart == <<arms, armed_delay, timers, rebooted>>

reply == <<response, result, failed>>

vars == <<handler, pc, requests, content_type, content_len, reads_left,
          firmware_size, total_bytes_read, bytes_read, firmware_known, txn,
          begins, writes_ok, writes_failed, aborts, commits, arms,
          armed_delay, response, failed, result, timers, rebooted,
          mac_address, hostname, read_log, write_log, first_run>>

Running == ~rebooted /\ pc # "panicked"

\* ----------------------------------------------------------- base36::encode
BASE == 36
INPUT_LENGTH == 6

ENCODING_TABLE ==
    <<"a", "b", "c", "d", "e", "f", "g", "h", "i", "j", "k", "l", "m", "n", "o", "p", "q", "r", "s",
      "t", "u", "v", "w", "x", "y", "z", "0", "1", "2", "3", "4", "5", "6", "7", "8", "9">>

\* A u64 that holds 48 bits is kept as its INPUT_LENGTH bytes, most significant
\* first (the value exceeds the integers of the model checker).
ZeroNumber == [k \in 1..INPUT_LENGTH |-> 0]

RECURSIVE BitOr(_, _)
BitOr(a, b) ==
    IF a = 0 THEN b
    ELSE IF b = 0 THEN a
    ELSE (IF a % 2 = 1 \/ b % 2 = 1 THEN 1 ELSE 0) + 2 * BitOr(a \div 2, b \div 2)

\* number |= (byte as u64) << (BITS_IN_BYTE * ((INPUT_LENGTH - 1) - i)), i from 0:
\* the shift is a whole number of bytes, the byte lands (INPUT_LENGTH - 1) - i
\* bytes above the least significant one.
OrShifted(number, byte, i) ==
    [number EXCEPT ![INPUT_LENGTH - ((INPUT_LENGTH - 1) - i)] = BitOr(@, byte)]

RECURSIVE ToNumberFrom(_, _, _)
ToNumberFrom(addr, i, number) ==
    IF i = INPUT_LENGTH THEN number
    ELSE ToNumberFrom(addr, i + 1, OrShifted(number, addr[i + 1], i))

\* for (i, &byte) in input.iter().enumerate() { number |= ... }
ToNumber(addr) == ToNumberFrom(addr, 0, ZeroNumber)

\* number / BASE and number % BASE by long division over the bytes of number.
RECURSIVE DivModFrom(_, _, _, _)
DivModFrom(number, k, carry, quotient) ==
    IF k > INPUT_LENGTH THEN [quot |-> quotient, rem |-> carry]
    ELSE LET cur == carry * 256 + number[k]
         IN DivModFrom(number, k + 1, cur % BASE, Append(quotient, cur \div BASE))

DivMod(number) == DivModFrom(number, 1, 0, <<>>)

Reverse(s) == [k \in 1..Len(s) |-> s[Len(s) + 1 - k]]

\* while number > 0 { result.push(ENCODING_TABLE[number % BASE]); number /= BASE; }
RECURSIVE PushDigits(_, _)
PushDigits(number, digits) ==
    IF number = ZeroNumber THEN digits
    ELSE PushDigits(DivMod(number).quot,
                    Append(digits, ENCODING_TABLE[DivMod(number).rem + 1]))

\* Variant of encode: the digits are collected without .rev().
encodeNotReversed(addr) == PushDigits(ToNumber(addr), <<>>)

\* pub fn encode(input: [u8; INPUT_LENGTH]) -> String
encode(addr) == Reverse(PushDigits(ToNumber(addr), <<>>))

\* Bytes the sampled hardware addresses are made of.
ByteSamples == {0, 1, 36, 255}

MacAddresses == [1..INPUT_LENGTH -> ByteSamples]

\* Addresses of the devices whose update handler is explored.
BootMacs == {[k \in 1..INPUT_LENGTH |-> 0], [k \in 1..INPUT_LENGTH |-> IF k = 1 THEN 36 ELSE 255]}

\* A chunk of the request body: the id-th non-empty read, n bytes long.
Chunk(id, n) == [id |-> id, n |-> n]

\* No request has been served by the other handler yet.
NoRun == [ran |-> FALSE]

Init ==
    /\ handler \in Handlers
    /\ pc = "idle"
    /\ requests = 0
    /\ content_type = NoContentType
    /\ content_len = NoLen
    /\ reads_left = 0
    /\ firmware_size = 0
    /\ total_bytes_read = 0
    /\ bytes_read = 0
    /\ firmware_known = TRUE
    /\ txn = "none"
    /\ begins = 0
    /\ writes_ok = 0
    /\ writes_failed = 0
    /\ aborts = 0
    /\ commits = 0
    /\ arms = 0
    /\ armed_delay = 0
    /\ response = 0
    /\ failed = {}
    /\ result = "none"
    /\ timers = <<>>
    /\ rebooted = FALSE
    /\ mac_address \in BootMacs
    /\ hostname = encode(mac_address)
    /\ read_log = <<>>
    /\ write_log = <<>>
    /\ first_run = NoRun

\* ----------------------------------------------------------------- helpers
\* `size as usize` on the 32-bit target keeps the low word.
AsUsize(len) == len.lo

\* Variant of ContentTypeAccepted: the type is compared with the wrong constant.
ContentTypeIsJson(ct) == ct # NoContentType /\ ct = CONTENT_TYPE_JSON

\* Variant of ContentTypeAccepted: a request without a content type is let through.
ContentTypeAcceptedOrAbsent(ct) == ct = NoContentType \/ ct = CONTENT_TYPE_OCTET_STEAM

\* content_type.is_some_and(|content_type| content_type == CONTENT_TYPE_OCTET_STEAM)
ContentTypeAccepted(ct) == ct # NoContentType /\ ct = CONTENT_TYPE_OCTET_STEAM

\* firmware_size > OTA_PARTITION_SIZE
ExceedsPartition(size) == size > OTA_PARTITION_SIZE

\* total_bytes_read >= firmware_size
UpdateFinished(total, size) == total >= size

\* `?` on an Err: the handler returns Err; the server answers 500 unless a
\* response was already issued.
ReturnErr(call) ==
    /\ pc' = "done"
    /\ result' = "Err"
    /\ response' = IF response = 0 THEN STATUS_CODE_INTERNAL_SERVER_ERROR ELSE response
    /\ failed' = failed \cup {call}

\* request.into_status_response(status)? ... return Ok(())
Reject(status) ==
    \E sent \in BOOLEAN :
        /\ pc' = "done"
        /\ response' = status
        /\ failed' = IF sent THEN failed ELSE failed \cup {"send"}
        /\ result' = IF sent THEN "Ok" ELSE "Err"

\* ----------------------------------------------------------------- actions
\* The server hands a POST /update request to the handler.
Receive ==
    /\ Running
    /\ pc \in {"idle", "done"}
    /\ requests < MaxRequests
    /\ requests' = requests + 1
    /\ content_type' \in ContentTypes
    /\ content_len' \in ContentLens
    /\ reads_left' = MaxReads
    /\ firmware_size' = 0
    /\ total_bytes_read' = 0
    /\ bytes_read' = 0
    /\ firmware_known' = TRUE
    /\ txn' = "none"
    /\ begins' = 0
    /\ writes_ok' = 0
    /\ writes_failed' = 0
    /\ aborts' = 0
    /\ commits' = 0
    /\ arms' = 0
    /\ armed_delay' = 0
    /\ response' = 0
    /\ failed' = {}
    /\ result' = "none"
    /\ read_log' = <<>>
    /\ write_log' = <<>>
    /\ pc' = IF handler = "add_update_handler" THEN "check_type" ELSE "check_len"
    /\ UNCHANGED <<first_run, handler, mac_address, hostname, timers, rebooted>>

\* What a served request leaves to be seen: the request, the answers the
\* collaborators gave and what the handler did.
Observation ==
    [ran |-> TRUE, handler |-> handler, pc |-> pc,
     content_type |-> content_type, content_len |-> content_len,
     firmware_known |-> firmware_known, failed |-> failed,
     read_log |-> read_log, write_log |-> write_log,
     txn |-> txn, begins |-> begins, writes_ok |-> writes_ok,
     writes_failed |-> writes_failed, aborts |-> aborts, commits |-> commits,
     arms |-> arms, armed_delay |-> armed_delay,
     response |-> response, result |-> result]

\* main.rs 111 and http_server.rs 279 register a handler for the same route:
\* the request just served is handed to the other handler, on a device in the
\* state it had before the request.
Replay ==
    /\ pc \in {"done", "panicked"}
    /\ ~first_run.ran
    /\ content_type = CONTENT_TYPE_OCTET_STEAM
    /\ content_len.some
    /\ requests' = requests + 1
    /\ first_run' = Observation
    /\ handler' = CHOOSE h \in Handlers : h # handler
    /\ reads_left' = MaxReads
    /\ firmware_size' = 0
    /\ total_bytes_read' = 0
    /\ bytes_read' = 0
    /\ firmware_known' = TRUE
    /\ txn' = "none"
    /\ begins' = 0
    /\ writes_ok' = 0
    /\ writes_failed' = 0
    /\ aborts' = 0
    /\ commits' = 0
    /\ arms' = 0
    /\ armed_delay' = 0
    /\ response' = 0
    /\ failed' = {}
    /\ result' = "none"
    /\ read_log' = <<>>
    /\ write_log' = <<>>
    /\ timers' = <<>>
    /\ rebooted' = FALSE
    /\ pc' = IF handler' = "add_update_handler" THEN "check_type" ELSE "check_len"
    /\ UNCHANGED <<mac_address, hostname, input>>

\* Variant of CheckContentType: the presence of a declared length is tested
\* before the content type.
CheckContentTypeAfterLen ==
    /\ Running
    /\ pc = "check_type"
    /\ IF ~content_len.some
         THEN Reject(STATUS_CODE_LENGTH_REQUIRED)
         ELSE IF ContentTypeAccepted(content_type)
                THEN pc' = "check_len" /\ UNCHANGED reply
                ELSE Reject(STATUS_CODE_UNSUPPORTED_MEDIA_TYPE)
    /\ UNCHANGED <<first_run, handler, mac_address, hostname, read_log, write_log, requests, input, stream, firmware_known, txn, calls, restart>>

\* http_server.rs 282-291
CheckContentType ==
    /\ Running
    /\ pc = "check_type"
    /\ IF ContentTypeAccepted(content_type)
         THEN pc' = "check_len" /\ UNCHANGED reply
         ELSE Reject(STATUS_CODE_UNSUPPORTED_MEDIA_TYPE)
    /\ UNCHANGED <<first_run, handler, mac_address, hostname, read_log, write_log, requests, input, stream, firmware_known, txn, calls, restart>>

\* Variant of CheckContentLen: a missing length is read as 0 by every handler
\* (content_len().unwrap_or(0)) instead of being rejected.
CheckContentLenUnwrapOr0 ==
    /\ Running
    /\ pc = "check_len"
    /\ firmware_size' = AsUsize(content_len)
    /\ pc' = "check_cap"
    /\ UNCHANGED <<first_run, handler, mac_address, hostname, read_log, write_log, requests, input, reads_left, total_bytes_read, bytes_read,
                   firmware_known, txn, calls, restart, reply>>

\* http_server.rs 293-299; main.rs 113
CheckContentLen ==
    /\ Running
    /\ pc = "check_len"
    /\ IF handler = "add_update_handler" /\ ~content_len.some
         THEN /\ Reject(STATUS_CODE_LENGTH_REQUIRED)
              /\ UNCHANGED firmware_size
         ELSE /\ firmware_size' = AsUsize(content_len)
              /\ pc' = "check_cap"
              /\ UNCHANGED reply
    /\ UNCHANGED <<first_run, handler, mac_address, hostname, read_log, write_log, requests, input, reads_left, total_bytes_read, bytes_read,
                   firmware_known, txn, calls, restart>>

\* http_server.rs 301-304; main.rs 115-119
CheckCapacity ==
    /\ Running
    /\ pc = "check_cap"
    /\ IF ExceedsPartition(firmware_size)
         THEN Reject(STATUS_CODE_REQUEST_ENTITY_TO_LARGE)
         ELSE pc' = "ota_new" /\ UNCHANGED reply
    /\ UNCHANGED <<first_run, handler, mac_address, hostname, read_log, write_log, requests, input, stream, firmware_known, txn, calls, restart>>

\* http_server.rs 306; main.rs 121: EspOta::new()?
OtaNew ==
    /\ Running
    /\ pc = "ota_new"
    /\ \E ok \in BOOLEAN :
         IF ok THEN pc' = "running_slot" /\ UNCHANGED reply
               ELSE ReturnErr("new")
    /\ UNCHANGED <<first_run, handler, mac_address, hostname, read_log, write_log, requests, input, stream, firmware_known, txn, calls, restart>>

\* http_server.rs 307; main.rs 122: ota.get_running_slot()?
GetRunningSlot ==
    /\ Running
    /\ pc = "running_slot"
    /\ \E ok \in BOOLEAN, fw \in BOOLEAN :
         IF ok THEN pc' = "update_slot" /\ firmware_known' = fw /\ UNCHANGED reply
               ELSE ReturnErr("get_running_slot") /\ UNCHANGED firmware_known
    /\ UNCHANGED <<first_run, handler, mac_address, hostname, read_log, write_log, requests, input, stream, txn, calls, restart>>

\* http_server.rs 308; main.rs 123: ota.get_update_slot()?
GetUpdateSlot ==
    /\ Running
    /\ pc = "update_slot"
    /\ \E ok \in BOOLEAN :
         IF ok THEN pc' = "log_slots" /\ UNCHANGED reply
               ELSE ReturnErr("get_update_slot")
    /\ UNCHANGED <<first_run, handler, mac_address, hostname, read_log, write_log, requests, input, stream, firmware_known, txn, calls, restart>>

\* http_server.rs 309-314; main.rs 124-129: running_slot.firmware.unwrap()
LogSlots ==
    /\ Running
    /\ pc = "log_slots"
    /\ pc' = IF firmware_known THEN "initiate" ELSE "panicked"
    /\ UNCHANGED <<first_run, handler, mac_address, hostname, read_log, write_log, requests, input, stream, firmware_known, txn, calls, restart, reply>>

\* http_server.rs 316-318; main.rs 131-133: ota.initiate_update()?
InitiateUpdate ==
    /\ Running
    /\ pc = "initiate"
    /\ \E ok \in BOOLEAN :
         IF ok THEN /\ pc' = "read"
                    /\ txn' = "open"
                    /\ begins' = begins + 1
                    /\ total_bytes_read' = 0
                    /\ UNCHANGED reply
               ELSE /\ ReturnErr("initiate_update")
                    /\ UNCHANGED <<txn, begins, total_bytes_read>>
    /\ UNCHANGED <<first_run, handler, mac_address, hostname, read_log, write_log, requests, input, reads_left, firmware_size, bytes_read,
                   firmware_known, writes_ok, writes_failed, aborts, commits, restart>>

\* Variant of Read: the counter is assigned the size of the last read
\* (total_bytes_read = bytes_read) instead of being increased by it.
ReadAssign ==
    /\ Running
    /\ pc = "read"
    /\ \/ \E n \in ReadSizes :
            /\ n > 0 => reads_left > 0
            /\ reads_left' = IF n > 0 THEN reads_left - 1 ELSE reads_left
            /\ bytes_read' = n
            /\ total_bytes_read' = n
            /\ read_log' = IF n > 0 THEN Append(read_log, Chunk(Len(read_log) + 1, n))
                                     ELSE read_log
            /\ pc' = IF n > 0 THEN "write" ELSE "check_done"
            /\ UNCHANGED reply
       \/ /\ handler = "add_update_handler"
          /\ ReturnErr("read")
          /\ UNCHANGED <<reads_left, bytes_read, total_bytes_read, read_log>>
       \/ /\ handler = "http_server_init"
          /\ bytes_read' = 0
          /\ pc' = "check_done"
          /\ UNCHANGED <<reads_left, total_bytes_read, read_log, reply>>
    /\ UNCHANGED <<first_run, handler, mac_address, hostname, write_log, requests, input, firmware_size,
                   firmware_known, txn, calls, restart>>

\* http_server.rs 322-324: request.read(&mut buffer)?
\* main.rs 137-139:        request.read(&mut buffer).unwrap_or_default()
Read ==
    /\ Running
    /\ pc = "read"
    /\ \/ \E n \in ReadSizes :
            /\ n > 0 => reads_left > 0
            /\ reads_left' = IF n > 0 THEN reads_left - 1 ELSE reads_left
            /\ bytes_read' = n
            /\ total_bytes_read' = total_bytes_read + n
            /\ read_log' = IF n > 0 THEN Append(read_log, Chunk(Len(read_log) + 1, n))
                                     ELSE read_log
            /\ pc' = IF n > 0 THEN "write" ELSE "check_done"
            /\ UNCHANGED reply
       \/ /\ handler = "add_update_handler"
          /\ ReturnErr("read")
          /\ UNCHANGED <<reads_left, bytes_read, total_bytes_read, read_log>>
       \/ /\ handler = "http_server_init"
          /\ bytes_read' = 0
          /\ pc' = "check_done"
          /\ UNCHANGED <<reads_left, total_bytes_read, read_log, reply>>
    /\ UNCHANGED <<first_run, handler, mac_address, hostname, write_log, requests, input, firmware_size, firmware_known, txn, calls, restart>>

\* Variant of Write: the whole buffer is written (&buffer) instead of the
\* slice that was read (&buffer[..bytes_read]).
WriteWholeBuffer ==
    /\ Running
    /\ pc = "write"
    /\ bytes_read > 0
    /\ write_log' = Append(write_log, Chunk(Len(read_log), OTA_CHNUNK_SIZE))
    /\ \E ok \in BOOLEAN :
         IF ok THEN /\ writes_ok' = writes_ok + 1
                    /\ pc' = "check_done"
                    /\ UNCHANGED <<writes_failed, failed>>
               ELSE /\ writes_failed' = writes_failed + 1
                    /\ failed' = failed \cup {"write"}
                    /\ pc' = "abort"
                    /\ UNCHANGED writes_ok
    /\ UNCHANGED <<first_run, handler, mac_address, hostname, read_log, requests, input, stream,
                   firmware_known, txn, begins, aborts, commits, restart, response, result>>

\* http_server.rs 326-328; main.rs 141-143: ota_updater.write(&buffer[..bytes_read])
Write ==
    /\ Running
    /\ pc = "write"
    /\ bytes_read > 0
    /\ write_log' = Append(write_log, Chunk(Len(read_log), bytes_read))
    /\ \E ok \in BOOLEAN :
         IF ok THEN /\ writes_ok' = writes_ok + 1
                    /\ pc' = "check_done"
                    /\ UNCHANGED <<writes_failed, failed>>
               ELSE /\ writes_failed' = writes_failed + 1
                    /\ failed' = failed \cup {"write"}
                    /\ pc' = "abort"
                    /\ UNCHANGED writes_ok
    /\ UNCHANGED <<first_run, handler, mac_address, hostname, read_log, requests, input, stream, firmware_known, txn, begins, aborts,
                   commits, restart, response, result>>

\* Variant of Abort: the `break` after abort() is missing, the loop goes on.
AbortWithoutBreak ==
    /\ Running
    /\ pc = "abort"
    /\ aborts' = aborts + 1
    /\ \E ok \in BOOLEAN :
         IF ok THEN /\ txn' = "aborted"
                    /\ pc' = "check_done"
                    /\ UNCHANGED reply
               ELSE /\ txn' = "abort_failed"
                    /\ ReturnErr("abort")
    /\ UNCHANGED <<first_run, handler, mac_address, hostname, read_log, write_log, requests, input, stream,
                   firmware_known, begins, writes_ok, writes_failed, commits, restart>>

\* http_server.rs 329-330; main.rs 144-145: ota_updater.abort()?; break;
Abort ==
    /\ Running
    /\ pc = "abort"
    /\ aborts' = aborts + 1
    /\ \E ok \in BOOLEAN :
         IF ok THEN /\ txn' = "aborted"
                    /\ pc' = "timer_service"
                    /\ UNCHANGED reply
               ELSE /\ txn' = "abort_failed"
                    /\ ReturnErr("abort")
    /\ UNCHANGED <<first_run, handler, mac_address, hostname, read_log, write_log, requests, input, stream, firmware_known, begins, writes_ok,
                   writes_failed, commits, restart>>

\* Variant of CheckDone: a read of 0 bytes is taken for the end of the body
\* and ends the loop as well (as read_json_body does).
CheckDoneEofEnds ==
    /\ Running
    /\ pc = "check_done"
    /\ pc' = IF bytes_read = 0 \/ UpdateFinished(total_bytes_read, firmware_size)
               THEN "complete" ELSE "read"
    /\ UNCHANGED <<first_run, handler, mac_address, hostname, read_log, write_log, requests, input, stream,
                   firmware_known, txn, calls, restart, reply>>

\* http_server.rs 334, 338; main.rs 149, 153: if total_bytes_read >= firmware_size
CheckDone ==
    /\ Running
    /\ pc = "check_done"
    /\ pc' = IF UpdateFinished(total_bytes_read, firmware_size) THEN "complete" ELSE "read"
    /\ UNCHANGED <<first_run, handler, mac_address, hostname, read_log, write_log, requests, input, stream, firmware_known, txn, calls, restart, reply>>

\* Variant of Complete: a failed complete() is only logged and the loop is left
\* the way the abort branch leaves it.
CompleteLogOnly ==
    /\ Running
    /\ pc = "complete"
    /\ commits' = commits + 1
    /\ \E ok \in BOOLEAN :
         /\ txn' = IF ok THEN "committed" ELSE "commit_failed"
         /\ failed' = IF ok THEN failed ELSE failed \cup {"complete"}
         /\ pc' = "timer_service"
         /\ UNCHANGED <<response, result>>
    /\ UNCHANGED <<first_run, handler, mac_address, hostname, read_log, write_log, requests, input, stream, firmware_known, begins, writes_ok,
                   writes_failed, aborts, restart>>

\* http_server.rs 335-337; main.rs 150-152: ota_updater.complete()?; break;
Complete ==
    /\ Running
    /\ pc = "complete"
    /\ commits' = commits + 1
    /\ \E ok \in BOOLEAN :
         IF ok THEN /\ txn' = "committed"
                    /\ pc' = "timer_service"
                    /\ UNCHANGED reply
               ELSE /\ txn' = "commit_failed"
                    /\ ReturnErr("complete")
    /\ UNCHANGED <<first_run, handler, mac_address, hostname, read_log, write_log, requests, input, stream, firmware_known, begins, writes_ok,
                   writes_failed, aborts, restart>>

\* http_server.rs 341; main.rs 163: EspTimerService::new()?
TimerServiceNew ==
    /\ Running
    /\ pc = "timer_service"
    /\ \E ok \in BOOLEAN :
         IF ok THEN pc' = "timer" /\ UNCHANGED reply
               ELSE ReturnErr("timer_service")
    /\ UNCHANGED <<first_run, handler, mac_address, hostname, read_log, write_log, requests, input, stream, firmware_known, txn, calls, restart>>

\* http_server.rs 342-345; main.rs 164-167: reboot_timer.timer(...)?
TimerCreate ==
    /\ Running
    /\ pc = "timer"
    /\ \E ok \in BOOLEAN :
         IF ok THEN pc' = "respond" /\ UNCHANGED reply
               ELSE ReturnErr("timer")
    /\ UNCHANGED <<first_run, handler, mac_address, hostname, read_log, write_log, requests, input, stream, firmware_known, txn, calls, restart>>

\* Variant of Respond: the response is left for after the timer was armed.
RespondLater ==
    /\ Running
    /\ pc = "respond"
    /\ pc' = "after"
    /\ UNCHANGED <<first_run, handler, mac_address, hostname, read_log, write_log, requests, input, stream,
                   firmware_known, txn, calls, restart, reply>>

\* http_server.rs 347; main.rs 169: request.into_ok_response()?
Respond ==
    /\ Running
    /\ pc = "respond"
    /\ response' = STATUS_CODE_OK
    /\ \E sent \in BOOLEAN :
         IF sent THEN /\ pc' = "after"
                      /\ UNCHANGED <<failed, result>>
                 ELSE /\ pc' = "done"
                      /\ failed' = failed \cup {"send"}
                      /\ result' = "Err"
    /\ UNCHANGED <<first_run, handler, mac_address, hostname, read_log, write_log, requests, input, stream, firmware_known, txn, calls, restart>>

\* Variant of After: without std::mem::forget the timer is dropped, and so
\* cancelled, when the handler returns.
AfterWithoutForget ==
    /\ Running
    /\ pc = "after"
    /\ \E ok \in BOOLEAN :
         IF ok THEN /\ pc' = "done"
                    /\ result' = "Ok"
                    /\ UNCHANGED <<response, failed>>
               ELSE ReturnErr("after")
    /\ UNCHANGED <<first_run, handler, mac_address, hostname, read_log, write_log, requests, input, stream, firmware_known, txn, calls, restart>>

\* http_server.rs 348-350; main.rs 170-172:
\* reboot_timer.after(Duration::from_secs(5))?; std::mem::forget(reboot_timer); Ok(())
After ==
    /\ Running
    /\ pc = "after"
    /\ \E ok \in BOOLEAN :
         IF ok THEN /\ arms' = arms + 1
                    /\ armed_delay' = REBOOT_DELAY_SECS
                    /\ timers' = Append(timers, REBOOT_DELAY_SECS)
                    /\ pc' = "done"
                    /\ result' = "Ok"
                    /\ UNCHANGED <<response, failed>>
               ELSE /\ ReturnErr("after")
                    /\ UNCHANGED <<arms, armed_delay, timers>>
    /\ UNCHANGED <<first_run, handler, mac_address, hostname, read_log, write_log, requests, input, stream, firmware_known, txn, calls, rebooted>>

\* One second passes for every armed timer.
Tick ==
    /\ Running
    /\ timers # <<>>
    /\ \A i \in 1..Len(timers) : timers[i] > 0
    /\ timers' = [i \in 1..Len(timers) |-> timers[i] - 1]
    /\ UNCHANGED <<first_run, handler, mac_address, hostname, read_log, write_log, pc, requests, input, stream, firmware_known, txn, calls,
                   arms, armed_delay, rebooted, reply>>

\* http_server.rs 342-345; main.rs 164-167: the timer callback calls restart().
TimerFire ==
    /\ Running
    /\ \E i \in 1..Len(timers) : timers[i] = 0
    /\ rebooted' = TRUE
    /\ UNCHANGED <<first_run, handler, mac_address, hostname, read_log, write_log, pc, requests, input, stream, firmware_known, txn, calls,
                   arms, armed_delay, timers, reply>>

HandlerStep ==
    \/ CheckContentType
    \/ CheckContentLen
    \/ CheckCapacity
    \/ OtaNew
    \/ GetRunningSlot
    \/ GetUpdateSlot
    \/ LogSlots
    \/ InitiateUpdate
    \/ Read
    \/ Write
    \/ Abort
    \/ CheckDone
    \/ Complete
    \/ TimerServiceNew
    \/ TimerCreate
    \/ Respond
    \/ After

Next ==
    \/ Receive
    \/ HandlerStep
    \/ Tick
    \/ TimerFire

Spec == Init /\ [][Next]_vars

\* main.rs 61-65, mdns.rs 9-13, wifi.rs 13-15: the hostname of the device is
\* derived from its MAC address when the firmware starts.
EncodeInit ==
    /\ handler \in Handlers
    /\ pc = "boot"
    /\ requests = 0
    /\ content_type = NoContentType
    /\ content_len = NoLen
    /\ reads_left = 0
    /\ firmware_size = 0
    /\ total_bytes_read = 0
    /\ bytes_read = 0
    /\ firmware_known = TRUE
    /\ txn = "none"
    /\ begins = 0
    /\ writes_ok = 0
    /\ writes_failed = 0
    /\ aborts = 0
    /\ commits = 0
    /\ arms = 0
    /\ armed_delay = 0
    /\ response = 0
    /\ failed = {}
    /\ result = "none"
    /\ timers = <<>>
    /\ rebooted = FALSE
    /\ mac_address \in MacAddresses
    /\ hostname = <<>>
    /\ read_log = <<>>
    /\ write_log = <<>>
    /\ first_run = NoRun

\* let hostname = base36::encode(mac_address);
MdnsInit ==
    /\ pc = "boot"
    /\ hostname' = encode(mac_address)
    /\ pc' = "idle"
    /\ UNCHANGED <<first_run, handler, mac_address, read_log, write_log, requests, input, stream,
                   firmware_known, txn, calls, restart, reply>>

EncodeNext == MdnsInit

EncodeSpec == EncodeInit /\ [][EncodeNext]_vars

\* The calls a served request o got past, read off what it left: a call was
\* answered Ok when the handler went on to the call that follows it.
Passed(o, call) ==
    LET log_slots  == o.pc = "panicked" \/ o.begins > 0 \/ "initiate_update" \in o.failed
        upd_slot   == log_slots \/ "get_update_slot" \in o.failed
        run_slot   == upd_slot \/ "get_running_slot" \in o.failed
        responded  == o.response = STATUS_CODE_OK
        timer      == responded \/ "timer" \in o.failed
    IN  CASE call = "new"              -> run_slot
          [] call = "get_running_slot" -> upd_slot
          [] call = "get_update_slot"  -> log_slots
          [] call = "initiate_update"  -> o.begins > 0
          [] call = "abort"            -> o.aborts > 0
          [] call = "complete"         -> o.commits > 0
          [] call = "timer_service"    -> timer
          [] call = "timer"            -> responded
          [] call = "after"            -> o.arms > 0
          [] OTHER                     -> FALSE

\* The answer the collaborator gave to a call of the served request o.
Answer(o, call) ==
    IF call \in o.failed THEN "err"
    ELSE IF Passed(o, call) THEN "ok"
    ELSE "unasked"

Shorter(s, t) == IF Len(s) <= Len(t) THEN Len(s) ELSE Len(t)

\* Every collaborator call that two served requests both made got the same
\* answer, read by read and write by write.
CallsAgree(a, b) ==
    /\ \A call \in Calls \ {"read", "write", "send"} :
          (Answer(a, call) # "unasked" /\ Answer(b, call) # "unasked")
          => Answer(a, call) = Answer(b, call)
    /\ (Answer(a, "get_running_slot") = "ok" /\ Answer(b, "get_running_slot") = "ok")
       => a.firmware_known = b.firmware_known
    /\ a.response = b.response => (("send" \in a.failed) <=> ("send" \in b.failed))
    /\ \A k \in 1..Shorter(a.read_log, b.read_log) : a.read_log[k] = b.read_log[k]
    /\ \A k \in 1..Shorter(a.write_log, b.write_log) :
          (k <= a.writes_ok) <=> (k <= b.writes_ok)

\* Two requests served to the end met the same environment. A served request
\* that began a transaction and logged no chunk got an empty first read (an
\* empty read later on leaves the loop where it was).
AnswersAgree(a, b) ==
    /\ CallsAgree(a, b)
    /\ (a.begins > 0 /\ b.begins > 0) => ((a.read_log = <<>>) <=> (b.read_log = <<>>))

\* The first request a device is given.
ReceiveFirst ==
    /\ requests = 0
    /\ Receive

\* A step of the handler; the handler that is given the request again meets
\* the collaborators' answers the first one met.
EquivStep ==
    /\ HandlerStep
    /\ (first_run.ran => CallsAgree(first_run, Observation))'

\* Both handlers are given the same request, one after the other.
EquivNext ==
    \/ ReceiveFirst
    \/ EquivStep
    \/ Replay

EquivSpec == Init /\ [][EquivNext]_vars

\* The handler runs on the server task: a handler that can take a step takes it.
LiveSpec == Init /\ [][Next]_vars /\ WF_vars(HandlerStep)

TypeOK ==
    /\ handler \in Handlers
    /\ requests \in 0..MaxRequests
    /\ content_type \in ContentTypes
    /\ content_len \in ContentLens
    /\ reads_left \in 0..MaxReads
    /\ total_bytes_read \in 0..(MaxReads * OTA_CHNUNK_SIZE)
    /\ bytes_read \in ReadSizes
    /\ txn \in {"none", "open", "committed", "aborted", "commit_failed", "abort_failed"}
    /\ response \in {0, STATUS_CODE_OK, STATUS_CODE_LENGTH_REQUIRED,
                     STATUS_CODE_REQUEST_ENTITY_TO_LARGE,
                     STATUS_CODE_UNSUPPORTED_MEDIA_TYPE,
                     STATUS_CODE_INTERNAL_SERVER_ERROR}
    /\ result \in {"none", "Ok", "Err"}
    /\ failed \subseteq Calls
    /\ Len(timers) <= MaxRequests
    /\ mac_address \in MacAddresses
    /\ Len(read_log) <= MaxReads
    /\ Len(write_log) <= Len(read_log)
    /\ first_run.ran \in BOOLEAN

\* ------------------------------------------------------------------ claims
Terminal == pc \in {"done", "panicked"}

Validating == pc \in {"check_type", "check_len", "check_cap"}

\* The real value of the declared length exceeds the partition capacity.
DeclaredTooLarge == content_len.some /\ (content_len.hi > 0 \/ content_len.lo > OTA_PARTITION_SIZE)

\* The body stream delivered exactly the declared number of bytes.
DeliveredExactly == content_len.some /\ content_len.hi = 0 /\ total_bytes_read = content_len.lo

NoStorageAction ==
    /\ txn = "none"
    /\ begins = 0 /\ writes_ok = 0 /\ writes_failed = 0 /\ aborts = 0 /\ commits = 0
    /\ arms = 0

\* C1: once a transaction write has failed, the handler never commits, never
\* arms the restart timer, and has aborted exactly once when it returns.
C1_WriteFailureAbortsOnly ==
    writes_failed > 0 =>
        /\ commits = 0
        /\ arms = 0
        /\ (pc = "done" => aborts = 1)

\* C2: the restart timer is armed only after the commit of the request's
\* transaction succeeded; a request on which a write or a commit failed never
\* arms it.
C2_RestartOnlyAfterCommit ==
    /\ arms > 0 => txn = "committed"
    /\ (writes_failed > 0 \/ txn = "commit_failed") => arms = 0

\* C3: a request on which a transaction write failed is answered with status
\* 500, never with 200 OK (whenever an answer could be sent at all).
C3_WriteFailureGives500 ==
    (writes_failed > 0 /\ pc = "done" /\ "send" \notin failed)
    => response = STATUS_CODE_INTERNAL_SERVER_ERROR

C5_MissingLengthGives411 ==
    (/\ handler = "add_update_handler"
     /\ requests > 0
     /\ content_type = CONTENT_TYPE_OCTET_STEAM
     /\ ~content_len.some)
    => (/\ NoStorageAction
        /\ pc \in {"check_type", "check_len", "done"}
        /\ (pc = "done" => response = STATUS_CODE_LENGTH_REQUIRED))

C5_Witness ==
    /\ handler = "add_update_handler"
    /\ content_type = CONTENT_TYPE_OCTET_STEAM
    /\ ~content_len.some
    /\ pc = "done"
    /\ response = STATUS_CODE_LENGTH_REQUIRED

\* C6: a request whose declared length exceeds the partition capacity is
\* answered with 413 and opens no transaction; a declared length equal to the
\* capacity is not answered with 413.
C6_OversizedGives413 ==
    (requests > 0 /\ content_type = CONTENT_TYPE_OCTET_STEAM /\ content_len.some)
    => (/\ DeclaredTooLarge =>
              /\ NoStorageAction
              /\ (Validating \/ pc = "done")
              /\ (pc = "done" => response = STATUS_CODE_REQUEST_ENTITY_TO_LARGE)
        /\ content_len = U64(0, OTA_PARTITION_SIZE) =>
              response # STATUS_CODE_REQUEST_ENTITY_TO_LARGE)

\* C7: add_update_handler answers a request whose content type is absent or
\* not application/octet-stream with 415, whatever its declared length, and
\* performs no storage action.
C7_WrongContentTypeGives415 ==
    (/\ handler = "add_update_handler"
     /\ requests > 0
     /\ content_type # CONTENT_TYPE_OCTET_STEAM)
    => (/\ NoStorageAction
        /\ pc \in {"check_type", "done"}
        /\ (pc = "done" => response = STATUS_CODE_UNSUPPORTED_MEDIA_TYPE))

C7_Witness ==
    /\ handler = "add_update_handler"
    /\ content_type = NoContentType
    /\ DeclaredTooLarge
    /\ pc = "done"
    /\ response = STATUS_CODE_UNSUPPORTED_MEDIA_TYPE

\* C8: when the commit succeeded and sending the success response failed, the
\* restart timer has been armed by the time the handler returns.
C8_ArmedDespiteSendFailure ==
    (txn = "committed" /\ "send" \in failed /\ pc = "done") => arms = 1

\* C9: a handler that was given a request eventually returns (or the process
\* ends), whatever the body stream does.
C9_HandlerReturns ==
    (pc \notin {"idle", "done", "panicked"}) ~> (Terminal \/ rebooted)

\* C10: when commit failed, the handler has returned an error answered with
\* status 500, without calling abort, without arming the restart timer and
\* without panicking.
C10_CommitFailureGives500 ==
    txn = "commit_failed"
    => (/\ pc = "done"
        /\ result = "Err"
        /\ response = STATUS_CODE_INTERNAL_SERVER_ERROR
        /\ aborts = 0
        /\ arms = 0
        /\ total_bytes_read >= firmware_size)

C10_Witness ==
    /\ txn = "commit_failed"
    /\ firmware_size = MaxLen
    /\ total_bytes_read = firmware_size
    /\ writes_ok > 0
    /\ response = STATUS_CODE_INTERNAL_SERVER_ERROR

\* ------------------------------------------------------- claims on encode
\* The characters a-z and 0-9.
Alphanumerics ==
    {"a", "b", "c", "d", "e", "f", "g", "h", "i", "j", "k", "l", "m", "n", "o", "p", "q", "r",
     "s", "t", "u", "v", "w", "x", "y", "z", "0", "1", "2", "3", "4", "5", "6", "7", "8", "9"}

\* The usual rendering of the base-36 digits: 0-9, then a-z.
UsualDigits ==
    <<"0", "1", "2", "3", "4", "5", "6", "7", "8", "9", "a", "b", "c", "d", "e", "f", "g", "h",
      "i", "j", "k", "l", "m", "n", "o", "p", "q", "r", "s", "t", "u", "v", "w", "x", "y", "z">>

DigitValue(table, c) == CHOOSE d \in 0..35 : table[d + 1] = c

\* value * 36 + d over the bytes of value, least significant byte first.
RECURSIVE TimesBasePlus(_, _, _)
TimesBasePlus(value, k, carry) ==
    IF k = 0 THEN value
    ELSE LET cur == value[k] * 36 + carry
         IN TimesBasePlus([value EXCEPT ![k] = cur % 256], k - 1, cur \div 256)

\* The 48-bit value a digit string stands for, most significant digit first.
RECURSIVE ValueOf(_, _, _)
ValueOf(table, str, value) ==
    IF str = <<>> THEN value
    ELSE ValueOf(table, Tail(str), TimesBasePlus(value, 6, DigitValue(table, Head(str))))

AllOnes == [k \in 1..6 |-> 255]

JustOne == [k \in 1..6 |-> IF k = 6 THEN 1 ELSE 0]

\* C11: the hostname encode returns is non-empty, at most 10 characters long
\* and made of the characters a-z and 0-9, for every address.
C11_EncodedNonEmptyAlnum ==
    pc # "boot" =>
        /\ Len(hostname) >= 1
        /\ Len(hostname) <= 10
        /\ \A k \in 1..Len(hostname) : hostname[k] \in Alphanumerics

\* C12 as stated: the hostname is the base-36 representation of the 48-bit
\* big-endian value of the address, most significant digit first, without
\* leading padding, the digit 1 being written "1".
C12_Base36UsualDigits ==
    pc # "boot" =>
        /\ ValueOf(UsualDigits, hostname, [k \in 1..6 |-> 0]) = mac_address
        /\ (hostname # <<>> => hostname[1] # "0")
        /\ (mac_address = JustOne => hostname = <<"1">>)

\* C12 amended: the hostname is the base-36 representation of the 48-bit
\* big-endian value of the address, most significant digit first, without
\* leading padding, in the digits of ENCODING_TABLE (a-z for 0-25, 0-9 for
\* 26-35): the address 0,0,0,0,0,1 gives "b", the all-0xFF address gives the
\* ten digits of 2^48 - 1, "c1153rx731"; zero has no digit at all.
C12_Base36TableDigits ==
    pc # "boot" =>
        /\ ValueOf(ENCODING_TABLE, hostname, [k \in 1..6 |-> 0]) = mac_address
        /\ (hostname # <<>> => hostname[1] # "a")
        /\ Len(hostname) <= 10
        /\ (mac_address = JustOne => hostname = <<"b">>)
        /\ (mac_address = AllOnes =>
               hostname = <<"c", "1", "1", "5", "3", "r", "x", "7", "3", "1">>)

C12_Witness ==
    /\ pc = "idle"
    /\ mac_address = AllOnes
    /\ Len(hostname) = 10
    /\ hostname[1] = "c"

\* ---------------------------------------------- claims on the update flow
Loop == {"read", "write", "check_done", "abort", "complete"}

Closed == {"committed", "aborted", "commit_failed", "abort_failed"}

\* Idle, Validating, opening the transaction, Streaming, after the loop, returned.
Phase(p) ==
    CASE p \in {"boot", "idle"} -> 0
      [] p \in {"check_type", "check_len", "check_cap"} -> 1
      [] p \in {"ota_new", "running_slot", "update_slot", "log_slots", "initiate"} -> 2
      [] p \in Loop -> 3
      [] p \in {"timer_service", "timer", "respond", "after"} -> 4
      [] OTHER -> 5

TxnRank(t) == IF t = "none" THEN 0 ELSE IF t = "open" THEN 1 ELSE 2

\* C13: when the handler returns, commit or abort has been called on the
\* transaction it opened.
C13_TransactionClosedAtReturn ==
    (pc = "done" /\ begins > 0) => txn # "open"

C16_WrittenIsRead ==
    /\ pc = "write" =>
          /\ bytes_read > 0
          /\ Len(read_log) = Len(write_log) + 1
          /\ SubSeq(read_log, 1, Len(write_log)) = write_log
    /\ pc # "write" => write_log = read_log
    /\ \A k \in 1..Len(write_log) : write_log[k].n > 0
    /\ writes_ok + writes_failed = Len(write_log)
    /\ writes_failed > 0 => Len(write_log) = writes_ok + 1

C16_Witness ==
    /\ pc = "check_done"
    /\ Len(write_log) = 3
    /\ write_log = read_log
    /\ write_log[1].n # write_log[2].n
    /\ writes_ok = 3

\* C17: within a request the handler only moves forward through Idle,
\* Validating, Streaming and the closed states; a transaction is never both
\* committed and aborted; commit and abort are called at most once; nothing is
\* written, committed or aborted once the transaction is closed.
C17_ForwardOnly ==
    [][/\ requests' = requests =>
             /\ Phase(pc') >= Phase(pc)
             /\ TxnRank(txn') >= TxnRank(txn)
             /\ txn \in Closed =>
                   UNCHANGED <<txn, writes_ok, writes_failed, commits, aborts, write_log>>
       /\ commits' <= 1
       /\ aborts' <= 1
       /\ commits' + aborts' <= 1
       /\ begins' <= 1]_vars

C17_Witness ==
    /\ txn = "aborted"
    /\ pc = "done"
    /\ writes_ok > 0
    /\ aborts = 1
    /\ commits = 0

\* C18: add_update_handler tests the content type first, then the presence of
\* a length, then the length against the capacity; the first test that fails
\* decides the status.
C18_ValidationOrder ==
    (handler = "add_update_handler" /\ requests > 0 /\ pc = "done")
    => (/\ response = STATUS_CODE_UNSUPPORTED_MEDIA_TYPE
              <=> content_type # CONTENT_TYPE_OCTET_STEAM
        /\ response = STATUS_CODE_LENGTH_REQUIRED
              <=> (content_type = CONTENT_TYPE_OCTET_STEAM /\ ~content_len.some)
        /\ response = STATUS_CODE_REQUEST_ENTITY_TO_LARGE
              <=> (/\ content_type = CONTENT_TYPE_OCTET_STEAM
                   /\ content_len.some
                   /\ content_len.lo > OTA_PARTITION_SIZE))

C18_Witness ==
    /\ handler = "add_update_handler"
    /\ pc = "done"
    /\ content_type = "text/plain"
    /\ ~content_len.some
    /\ response = STATUS_CODE_UNSUPPORTED_MEDIA_TYPE

\* C19: the timer is armed only after the 200 response was issued, with the
\* fixed delay; restart is called only by a timer whose delay has run out; an
\* armed timer is never cancelled nor re-armed and stays armed when the handler
\* has returned.
C19_RespondThenArm ==
    [][/\ arms' > arms =>
             /\ pc = "after"
             /\ response = STATUS_CODE_OK
             /\ "send" \notin failed
             /\ arms' = arms + 1
             /\ timers' = Append(timers, REBOOT_DELAY_SECS)
       /\ (pc = "after" /\ result' = "Ok") => Len(timers') = Len(timers) + 1
       /\ (rebooted' /\ ~rebooted) => \E k \in 1..Len(timers) : timers[k] = 0
       /\ Len(timers') >= Len(timers)
       /\ \A k \in 1..Len(timers) : timers'[k] \in {timers[k], timers[k] - 1}]_vars

C19_Witness ==
    /\ rebooted
    /\ pc = "done"
    /\ result = "Ok"
    /\ response = STATUS_CODE_OK
    /\ timers = <<0>>

\* C20: at most one restart timer is armed at any time.
C20_OneTimerArmed == Len(timers) <= 1

\* The calls of a request that go to the storage collaborator (EspOta, EspOtaUpdate).
StorageCalls == {"new", "get_running_slot", "get_update_slot", "initiate_update",
                 "write", "abort", "complete"}

\* The statuses that tell the client of an error.
ErrorStatuses == {STATUS_CODE_LENGTH_REQUIRED, STATUS_CODE_REQUEST_ENTITY_TO_LARGE,
                  STATUS_CODE_UNSUPPORTED_MEDIA_TYPE, STATUS_CODE_INTERNAL_SERVER_ERROR}

\* C22: no outcome of the storage collaborator makes the handler panic, and a
\* request during which a storage call failed (or the running slot carried no
\* firmware information) is answered with an HTTP error status.
C22_StorageFailureNeverPanics ==
    handler = "add_update_handler" =>
        /\ pc # "panicked"
        /\ (pc = "done" /\ (failed \cap StorageCalls # {} \/ ~firmware_known))
           => response \in ErrorStatuses

\* The requests the comparison of the two handlers is about.
Comparable(o) ==
    /\ o.content_type = CONTENT_TYPE_OCTET_STEAM
    /\ o.content_len.some
    /\ "read" \notin o.failed

\* The transaction calls of a served request, in the order the handler makes them.
TransactionCalls(o) ==
    <<o.begins, o.write_log, o.writes_ok, o.writes_failed, o.aborts, o.commits, o.txn>>

\* Both handlers have served the same request in the same environment.
BothServed ==
    /\ first_run.ran
    /\ Terminal
    /\ first_run.handler # handler
    /\ first_run.content_type = content_type
    /\ first_run.content_len = content_len
    /\ Comparable(first_run)
    /\ Comparable(Observation)
    /\ AnswersAgree(first_run, Observation)

\* C23: for a request with content type application/octet-stream and a
\* declared length, served without a failing body read, http_server_init and
\* add_update_handler give the same response status, the same transaction
\* calls and the same restart arming when the collaborators answer alike.
C23_HandlersEquivalent ==
    BothServed =>
        /\ first_run.response = response
        /\ TransactionCalls(first_run) = TransactionCalls(Observation)
        /\ first_run.arms = arms
        /\ first_run.armed_delay = armed_delay

\* C23 happens: add_update_handler has served, after http_server_init, an
\* update of several chunks that was committed and armed the restart.
C23_Witness ==
    /\ BothServed
    /\ handler = "add_update_handler"
    /\ pc = "done"
    /\ Len(write_log) > 1
    /\ commits = 1
    /\ arms = 1
    /\ response = STATUS_CODE_OK

====
